---- MODULE Spec2Model ----
(***************************************************************************)
(* Model of srml/support/src/storage/generator/value.rs: the StorageValue  *)
(* generator (exists / get / put / put_ref / kill / mutate / take /        *)
(* append / append_or_put / decode_len) over a raw key-value store.        *)
(*                                                                         *)
(* T is a byte collection (Vec<u8>): its SCALE encoding is a compact       *)
(* length prefix followed by the items, one byte each.                     *)
(***************************************************************************)
EXTENDS Integers, Sequences, FiniteSets, TLC

\* ---------------------------------------------------------------- bounds
\* Longest collection / raw entry body that append and mutate may grow to.
MaxLen == 2

\* ------------------------------------------------------------ Option<..>
None == <<>>
Some(x) == <<x>>

\* ----------------------------------------------------------------- inputs
\* Item values a caller stores (u8 items, as in the spec's [5], [7] example).
Items == {5, 7}

\* Values of T a caller may put.
Vals == {<<>>, <<5, 7>>}

\* Item batches a caller may append (ExactSizeIterator over &I).
Batches == {<<5>>, <<7>>, <<5, 7>>}

\* Raw byte strings an outside writer can leave at the key: an undecodable
\* compact prefix, and a prefix announcing one item with no item following.
CorruptBytes == {<<255>>, <<4>>}

\* The storage slots (one generated StorageValue implementation each).
Slots == {"A", "B"}

\* Query conventions a module can supply for a slot.
Adapters == {"OptionQuery", "ValueQuery", "ValueQueryDefault", "DefaultIsAbsent"}

\* Closures a caller may hand to mutate.
Closures == {"keep", "push", "reset"}

\* ------------------------------------------------------------------ codec
\* Compact<u32>::decode of the prefix of `b`: mode 0 (one byte, value b/4),
\* mode 1 (two bytes), mode 2 (four bytes), mode 3 (big integer: only the
\* four-byte form fits a u32).
CompactDecode(b) ==
    IF Len(b) = 0 THEN [ok |-> FALSE, val |-> 0, used |-> 0]
    ELSE LET p == b[1] IN
         CASE p % 4 = 0 -> [ok |-> TRUE, val |-> p \div 4, used |-> 1]
           [] p % 4 = 1 ->
                IF Len(b) < 2 THEN [ok |-> FALSE, val |-> 0, used |-> 0]
                ELSE [ok |-> TRUE, val |-> (p + 256 * b[2]) \div 4, used |-> 2]
           [] p % 4 = 2 ->
                IF Len(b) < 4 THEN [ok |-> FALSE, val |-> 0, used |-> 0]
                ELSE [ok |-> TRUE,
                      val |-> p \div 4 + 64 * b[2] + 16384 * b[3] + 4194304 * b[4],
                      used |-> 4]
           [] OTHER ->
                IF p \div 4 # 0 \/ Len(b) < 5 THEN [ok |-> FALSE, val |-> 0, used |-> 0]
                ELSE [ok |-> TRUE,
                      val |-> b[2] + 256 * b[3] + 65536 * b[4] + 16777216 * b[5],
                      used |-> 5]

\* Compact<u32>::compact_len
CompactLen(n) ==
    IF n < 64 THEN 1 ELSE IF n < 16384 THEN 2 ELSE IF n < 1073741824 THEN 4 ELSE 5

\* Compact<u32>::encode
CompactEncode(n) ==
    IF n < 64 THEN <<4 * n>>
    ELSE IF n < 16384 THEN <<(4 * n + 1) % 256, (4 * n + 1) \div 256>>
    ELSE IF n < 1073741824
         THEN <<(4 * n + 2) % 256, ((4 * n + 2) \div 256) % 256,
                ((4 * n + 2) \div 65536) % 256, (4 * n + 2) \div 16777216>>
         ELSE <<3, n % 256, (n \div 256) % 256, (n \div 65536) % 256, n \div 16777216>>

\* <Vec<u8> as Encode>::encode
Encode(v) == CompactEncode(Len(v)) \o v

\* <Vec<u8> as Decode>::decode: the prefix, then that many items; input left
\* over after the last item is ignored.
Decode(b) ==
    LET c == CompactDecode(b) IN
    IF ~c.ok \/ Len(b) - c.used < c.val
    THEN [ok |-> FALSE, val |-> <<>>]
    ELSE [ok |-> TRUE, val |-> SubSeq(b, c.used + 1, c.used + c.val)]

\* <Vec<u8> as DecodeLength>::len: the prefix alone.
DecodeLength(b) ==
    LET c == CompactDecode(b) IN [ok |-> c.ok, val |-> c.val]

\* <Vec<u8> as EncodeAppend>::append: empty input is encoded afresh; else the
\* prefix is read, replaced by the new length, and the items are pushed.
\* (The checked_add of the two lengths cannot overflow a u32 here: the
\* lengths of the model stay far below u32::MAX.)
EncodeAppend(enc, items) ==
    IF Len(enc) = 0 THEN [ok |-> TRUE, val |-> Encode(items)]
    ELSE LET c == CompactDecode(enc) IN
         IF ~c.ok
         THEN [ok |-> FALSE, val |-> <<>>]
         ELSE LET oldLen == CompactLen(c.val) IN
              [ok |-> TRUE,
               val |-> CompactEncode(c.val + Len(items))
                       \o SubSeq(enc, oldLen + 1, Len(enc)) \o items]

\* -------------------------------------------------------- key derivation
\* The static identifier of each slot.
unhashed_key(s) == IF s = "A" THEN <<1, 2>> ELSE <<2, 1>>

\* Twox128::hash, a deterministic function of the identifier bytes alone
\* (here a positional polynomial folded to 16 bits).
RECURSIVE Twox128(_)
Twox128(b) ==
    IF Len(b) = 0 THEN 40503
    ELSE (Twox128(SubSeq(b, 1, Len(b) - 1)) * 31 + b[Len(b)]) % 65536

storage_value_final_key(s) == Twox128(unhashed_key(s))

hashed_key(s) == storage_value_final_key(s)

Keys == {storage_value_final_key(s) : s \in Slots}

\* -------------------------------------------------------------- raw store
\* A store is a function Keys -> Option<bytes>.  Each primitive returns the
\* store it leaves (st), its result (val) and whether it aborted (panic).
unhashed_exists(st, k) == st[k] # None

unhashed_get_raw(st, k) == st[k]

unhashed_put_raw(st, k, bytes) == [st EXCEPT ![k] = Some(bytes)]

unhashed_kill(st, k) == [st EXCEPT ![k] = None]

\* unhashed::get: decodes a present entry; a present entry that does not
\* decode is a fault that aborts the call.
unhashed_get(st, k) ==
    IF st[k] = None THEN [panic |-> FALSE, val |-> None]
    ELSE LET d == Decode(st[k][1]) IN
         IF d.ok THEN [panic |-> FALSE, val |-> Some(d.val)]
         ELSE [panic |-> TRUE, val |-> None]

\* unhashed::put: encodes the value and writes it.
unhashed_put(st, k, v) == unhashed_put_raw(st, k, Encode(v))

\* ---------------------------------------------------------- query adapter
\* The default a slot's module declares.
DefaultOf(a) == IF a = "ValueQuery" THEN <<>> ELSE <<5>>

\* OptionQuery: Query = Option<T>, absent reads as None.
\* ValueQuery / ValueQueryDefault: Query = T, absent reads as the default
\*   (empty / <<5>>), every Query is written back as Some.
\* DefaultIsAbsent: Query = T, absent reads as the default <<5>>, and the
\*   default is written back as absent (the two directions are inverses).
from_optional_value_to_query(a, v) ==
    IF a = "OptionQuery" THEN [kind |-> "opt", val |-> v]
    ELSE [kind |-> "val", val |-> IF v = None THEN DefaultOf(a) ELSE v[1]]

from_query_to_optional_value(a, q) ==
    CASE a = "OptionQuery" -> q.val
      [] a = "DefaultIsAbsent" -> IF q.val = DefaultOf(a) THEN None ELSE Some(q.val)
      [] OTHER -> Some(q.val)

\* The closure f of mutate: what it leaves in the Query (q) and returns (r).
\*   keep:  leaves the Query alone, returns 0
\*   push:  pushes 7 onto the collection (creating it if None), returns the
\*          new length
\*   reset: sets the Query to what an absent slot reads as, returns 2
ApplyF(a, f, q) ==
    CASE f = "keep" -> [q |-> q, r |-> 0]
      [] f = "push" ->
           LET old == IF q.kind = "val" THEN q.val
                      ELSE IF q.val = None THEN <<>> ELSE q.val[1]
           IN  [q |-> IF q.kind = "opt" THEN [q EXCEPT !.val = Some(old \o <<7>>)]
                      ELSE [q EXCEPT !.val = old \o <<7>>],
                r |-> Len(old) + 1]
      [] OTHER -> [q |-> from_optional_value_to_query(a, None), r |-> 2]

\* --------------------------------------------------------------- accessor
\* Every operation of impl storage::StorageValue<T> for G, on store st, for
\* the slot s with query convention a.  Each yields the store it leaves (st),
\* what the caller gets (ret) and the raw-store calls it made, in order (acc).
\* ret is <<"ok", value>>, <<"unit">>, <<"err", message>> or <<"panic">>.
\* Variant of exists that asks whether a value can be read, not whether an
\* entry is there.
exists_ViaGet(st, a, s) ==
    [st  |-> st,
     ret |-> <<"ok", unhashed_get(st, storage_value_final_key(s)).val # None>>,
     acc |-> <<"get">>]

exists(st, a, s) ==
    [st  |-> st,
     ret |-> <<"ok", unhashed_exists(st, storage_value_final_key(s))>>,
     acc |-> <<"exists">>]

get(st, a, s) ==
    LET value == unhashed_get(st, storage_value_final_key(s)) IN
    [st  |-> st,
     ret |-> IF value.panic THEN <<"panic">>
             ELSE <<"ok", from_optional_value_to_query(a, value.val)>>,
     acc |-> <<"get">>]

\* Variant of put that writes the value's items without encoding them.
put_Unencoded(st, a, s, val) ==
    [st  |-> unhashed_put_raw(st, storage_value_final_key(s), val),
     ret |-> <<"unit">>,
     acc |-> <<"put_raw">>]

put(st, a, s, val) ==
    [st  |-> unhashed_put(st, storage_value_final_key(s), val),
     ret |-> <<"unit">>,
     acc |-> <<"put">>]

put_ref(st, a, s, val) ==
    [st  |-> unhashed_put_raw(st, storage_value_final_key(s), Encode(val)),
     ret |-> <<"unit">>,
     acc |-> <<"put_raw">>]

\* Variant of kill that removes every entry of the store, not the slot's.
kill_EveryKey(st, a, s) ==
    [st |-> [k \in DOMAIN st |-> None], ret |-> <<"unit">>, acc |-> <<"kill">>]

\* Variant of kill that never reaches the raw store.
kill_Skipped(st, a, s) ==
    [st |-> st, ret |-> <<"unit">>, acc |-> <<>>]

kill(st, a, s) ==
    [st  |-> unhashed_kill(st, storage_value_final_key(s)),
     ret |-> <<"unit">>,
     acc |-> <<"kill">>]

\* Variant of the write-back that reads the slot again and applies f to what
\* is there now, not to the Query read earlier.
mutate_write_back_Reread(st, a, s, f, q) ==
    LET g == get(st, a, s)
        m == ApplyF(a, f, IF g.ret = <<"panic">> THEN q ELSE g.ret[2])
        o == from_query_to_optional_value(a, m.q)
        w == IF o # None THEN put(st, a, s, o[1]) ELSE kill(st, a, s)
    IN  [st |-> w.st, ret |-> <<"ok", m.r>>, acc |-> g.acc \o w.acc]

\* mutate after its read: f runs on the Query read, the result is converted
\* and put or killed.
mutate_write_back(st, a, s, f, q) ==
    LET m == ApplyF(a, f, q)
        o == from_query_to_optional_value(a, m.q)
        w == IF o # None THEN put(st, a, s, o[1]) ELSE kill(st, a, s)
    IN  [st |-> w.st, ret |-> <<"ok", m.r>>, acc |-> w.acc]

\* Variant of mutate that writes nothing when f left the Query as it was.
mutate_SkipUnchanged(st, a, s, f) ==
    LET g == get(st, a, s) IN
    IF g.ret = <<"panic">> THEN g
    ELSE LET m == ApplyF(a, f, g.ret[2])
             w == mutate_write_back(g.st, a, s, f, g.ret[2])
         IN  IF m.q = g.ret[2]
             THEN [st |-> g.st, ret |-> <<"ok", m.r>>, acc |-> g.acc]
             ELSE [st |-> w.st, ret |-> w.ret, acc |-> g.acc \o w.acc]

\* Variant of mutate that kills whenever the Query f left is what an absent
\* slot reads as, without asking from_query_to_optional_value.
mutate_KillOnDefault(st, a, s, f) ==
    LET g == get(st, a, s) IN
    IF g.ret = <<"panic">> THEN g
    ELSE LET m == ApplyF(a, f, g.ret[2])
             w == IF m.q = from_optional_value_to_query(a, None)
                  THEN kill(g.st, a, s)
                  ELSE mutate_write_back(g.st, a, s, f, g.ret[2])
         IN  [st |-> w.st, ret |-> <<"ok", m.r>>, acc |-> g.acc \o w.acc]

\* Variant of mutate that writes Some back but leaves the entry when the
\* Query maps to None.
mutate_NoKill(st, a, s, f) ==
    LET g == get(st, a, s) IN
    IF g.ret = <<"panic">> THEN g
    ELSE LET m == ApplyF(a, f, g.ret[2])
             o == from_query_to_optional_value(a, m.q)
         IN  IF o # None
             THEN [st |-> put(g.st, a, s, o[1]).st, ret |-> <<"ok", m.r>>,
                   acc |-> <<"get", "put">>]
             ELSE [st |-> g.st, ret |-> <<"ok", m.r>>, acc |-> <<"get">>]

mutate(st, a, s, f) ==
    LET g == get(st, a, s) IN
    IF g.ret = <<"panic">> THEN g
    ELSE LET m == ApplyF(a, f, g.ret[2])
             o == from_query_to_optional_value(a, m.q)
             w == IF o # None THEN put(g.st, a, s, o[1]) ELSE kill(g.st, a, s)
         IN  [st |-> w.st, ret |-> <<"ok", m.r>>, acc |-> g.acc \o w.acc]

\* Variant of take that reads and never kills.
take_NoKill(st, a, s) ==
    LET value == unhashed_get(st, storage_value_final_key(s)) IN
    [st  |-> st,
     ret |-> IF value.panic THEN <<"panic">>
             ELSE <<"ok", from_optional_value_to_query(a, value.val)>>,
     acc |-> <<"get">>]

\* Variant of take that removes a present entry before decoding it.
take_KillBeforeDecode(st, a, s) ==
    LET key   == storage_value_final_key(s)
        raw   == unhashed_get_raw(st, key)
        value == unhashed_get(st, key)
    IN  [st  |-> IF raw # None THEN unhashed_kill(st, key) ELSE st,
         ret |-> IF value.panic THEN <<"panic">>
                 ELSE <<"ok", from_optional_value_to_query(a, value.val)>>,
         acc |-> IF raw # None THEN <<"get_raw", "kill">> ELSE <<"get_raw">>]

\* Variant of take that kills whether or not a value was read.
take_AlwaysKill(st, a, s) ==
    LET key   == storage_value_final_key(s)
        value == unhashed_get(st, key)
    IN  IF value.panic THEN [st |-> st, ret |-> <<"panic">>, acc |-> <<"get">>]
        ELSE [st  |-> unhashed_kill(st, key),
              ret |-> <<"ok", from_optional_value_to_query(a, value.val)>>,
              acc |-> <<"get", "kill">>]

take(st, a, s) ==
    LET key   == storage_value_final_key(s)
        value == unhashed_get(st, key)
    IN  IF value.panic THEN [st |-> st, ret |-> <<"panic">>, acc |-> <<"get">>]
        ELSE [st  |-> IF value.val # None THEN unhashed_kill(st, key) ELSE st,
              ret |-> <<"ok", from_optional_value_to_query(a, value.val)>>,
              acc |-> IF value.val # None THEN <<"get", "kill">> ELSE <<"get">>]

\* Variant of the starting bytes that never consults the adapter: an absent
\* slot starts from no bytes.
append_encoded_value_NoDefault(st, a, s) ==
    LET raw == unhashed_get_raw(st, storage_value_final_key(s)) IN
    IF raw # None THEN raw[1] ELSE <<>>

\* Variant of the starting bytes that never consults the raw entry.
append_encoded_value_IgnoreEntry(st, a, s) ==
    LET d == from_query_to_optional_value(a, from_optional_value_to_query(a, None))
    IN  IF d # None THEN Encode(d[1]) ELSE <<>>

\* The bytes append starts from: the raw entry, or for an absent slot the
\* encoding of the default (None read and written back), or no bytes.
append_encoded_value(st, a, s) ==
    LET raw == unhashed_get_raw(st, storage_value_final_key(s)) IN
    IF raw # None THEN raw[1]
    ELSE LET d == from_query_to_optional_value(a, from_optional_value_to_query(a, None))
         IN  IF d # None THEN Encode(d[1]) ELSE <<>>

\* Variant of append that writes whatever the codec handed back before
\* looking at its verdict.
append_WriteOnReject(st, a, s, items) ==
    LET key     == storage_value_final_key(s)
        new_val == EncodeAppend(append_encoded_value(st, a, s), items)
    IN  [st  |-> unhashed_put_raw(st, key, new_val.val),
         ret |-> IF new_val.ok THEN <<"ok", "unit">>
                 ELSE <<"err", "Could not append given item">>,
         acc |-> <<"get_raw", "put_raw">>]

append(st, a, s, items) ==
    LET key     == storage_value_final_key(s)
        new_val == EncodeAppend(append_encoded_value(st, a, s), items)
    IN  IF ~new_val.ok
        THEN [st |-> st, ret |-> <<"err", "Could not append given item">>,
              acc |-> <<"get_raw">>]
        ELSE [st  |-> unhashed_put_raw(st, key, new_val.val),
              ret |-> <<"ok", "unit">>,
              acc |-> <<"get_raw", "put_raw">>]

\* Variant of append_or_put that drops the error of append and does not put.
append_or_put_NoFallback(st, a, s, items) ==
    LET r == append(st, a, s, items) IN
    [st |-> r.st, ret |-> <<"unit">>, acc |-> r.acc]

\* Variant of append_or_put that clears the entry before the fallback put.
append_or_put_KillThenPut(st, a, s, items) ==
    LET r == append(st, a, s, items) IN
    IF r.ret[1] = "err"
    THEN LET k == kill(r.st, a, s)
             p == put(k.st, a, s, items)
         IN  [st |-> p.st, ret |-> <<"unit">>, acc |-> r.acc \o k.acc \o p.acc]
    ELSE [st |-> r.st, ret |-> <<"unit">>, acc |-> r.acc]

\* Variant of append_or_put that replaces the entry by the items whatever
\* append answered.
append_or_put_AlwaysPut(st, a, s, items) ==
    LET r == append(st, a, s, items)
        p == put(st, a, s, items)
    IN  [st |-> p.st, ret |-> <<"unit">>, acc |-> <<"get_raw", "put">>]

append_or_put(st, a, s, items) ==
    LET r == append(st, a, s, items) IN
    IF r.ret[1] = "err"
    THEN LET p == put(r.st, a, s, items)
         IN  [st |-> p.st, ret |-> <<"unit">>, acc |-> r.acc \o p.acc]
    ELSE [st |-> r.st, ret |-> <<"unit">>, acc |-> r.acc]

\* Variant of decode_len that answers 0 for every absent slot.
decode_len_ZeroOnAbsent(st, a, s) ==
    LET raw == unhashed_get_raw(st, storage_value_final_key(s)) IN
    IF raw # None
    THEN LET l == DecodeLength(raw[1]) IN
         [st  |-> st,
          ret |-> IF l.ok THEN <<"ok", l.val>> ELSE <<"err", "decode">>,
          acc |-> <<"get_raw">>]
    ELSE [st |-> st, ret |-> <<"ok", 0>>, acc |-> <<"get_raw">>]

\* Variant of decode_len that measures the raw bytes of a present entry.
decode_len_ByteLen(st, a, s) ==
    LET raw == unhashed_get_raw(st, storage_value_final_key(s)) IN
    IF raw # None
    THEN [st |-> st, ret |-> <<"ok", Len(raw[1])>>, acc |-> <<"get_raw">>]
    ELSE LET d == from_query_to_optional_value(a, from_optional_value_to_query(a, None))
         IN  [st  |-> st,
              ret |-> <<"ok", IF d # None THEN Len(d[1]) ELSE 0>>,
              acc |-> <<"get_raw">>]

\* Variant of decode_len that answers 0 when the length cannot be decoded.
decode_len_ZeroOnError(st, a, s) ==
    LET raw == unhashed_get_raw(st, storage_value_final_key(s)) IN
    IF raw # None
    THEN LET l == DecodeLength(raw[1]) IN
         [st |-> st, ret |-> <<"ok", IF l.ok THEN l.val ELSE 0>>, acc |-> <<"get_raw">>]
    ELSE LET d == from_query_to_optional_value(a, from_optional_value_to_query(a, None))
         IN  [st  |-> st,
              ret |-> <<"ok", IF d # None THEN Len(d[1]) ELSE 0>>,
              acc |-> <<"get_raw">>]

decode_len(st, a, s) ==
    LET key == storage_value_final_key(s)
        raw == unhashed_get_raw(st, key)
    IN  IF raw # None
        THEN LET l == DecodeLength(raw[1]) IN
             [st  |-> st,
              ret |-> IF l.ok THEN <<"ok", l.val>> ELSE <<"err", "decode">>,
              acc |-> <<"get_raw">>]
        ELSE LET d == from_query_to_optional_value(a, from_optional_value_to_query(a, None))
             IN  [st  |-> st,
                  ret |-> <<"ok", IF d # None THEN Len(d[1]) ELSE 0>>,
                  acc |-> <<"get_raw">>]

\* ------------------------------------------------------------------ state
VARIABLES
    store,     \* the raw store: Keys -> Option<bytes>
    pre,       \* the raw store as the last operation found it
    adapter,   \* the Query convention of the module owning the slots
    op,        \* the operation that ran last
    slot,      \* the slot it ran on
    arg,       \* its argument (value, batch, closure, bytes) or None
    ret,       \* what it returned
    acc,       \* the raw-store calls it made
    pend       \* a mutate between its read and its write: None, or Some of
               \* its slot, closure, the Query it read and the entry it saw

vars == <<store, pre, adapter, op, slot, arg, ret, acc, pend>>

Init ==
    /\ store = [k \in Keys |-> None]
    /\ pre = store
    /\ adapter \in Adapters
    /\ op = "init"
    /\ slot = "A"
    /\ arg = None
    /\ ret = <<"unit">>
    /\ acc = <<>>
    /\ pend = None

\* The call `name` on slot s with argument x ran and yielded r.
Ran(name, s, x, r) ==
    /\ store' = r.st
    /\ pre' = store
    /\ op' = name
    /\ slot' = s
    /\ arg' = x
    /\ ret' = r.ret
    /\ acc' = r.acc
    /\ UNCHANGED <<adapter, pend>>

\* Length of the raw entry of slot s (0 when absent).
RawLen(s) ==
    LET raw == store[storage_value_final_key(s)] IN
    IF raw = None THEN 0 ELSE Len(raw[1])

Exists == \E s \in Slots : Ran("exists", s, None, exists(store, adapter, s))

Get == \E s \in Slots : Ran("get", s, None, get(store, adapter, s))

Put == \E s \in Slots, v \in Vals : Ran("put", s, Some(v), put(store, adapter, s, v))

PutRef == \E s \in Slots, v \in Vals : Ran("put_ref", s, Some(v), put_ref(store, adapter, s, v))

Kill == \E s \in Slots : Ran("kill", s, None, kill(store, adapter, s))

Mutate ==
    \E s \in Slots, f \in Closures :
        /\ f = "push" => RawLen(s) <= MaxLen
        /\ Ran("mutate", s, Some(f), mutate(store, adapter, s, f))

Take == \E s \in Slots : Ran("take", s, None, take(store, adapter, s))

AppendOp ==
    \E s \in Slots, items \in Batches :
        /\ Len(append_encoded_value(store, adapter, s)) + Len(items) <= MaxLen + 1
        /\ Ran("append", s, Some(items), append(store, adapter, s, items))

AppendOrPut ==
    \E s \in Slots, items \in Batches :
        /\ Len(append_encoded_value(store, adapter, s)) + Len(items) <= MaxLen + 1
        /\ Ran("append_or_put", s, Some(items), append_or_put(store, adapter, s, items))

DecodeLen == \E s \in Slots : Ran("decode_len", s, None, decode_len(store, adapter, s))

\* Another writer of the raw store leaves bytes at the slot's key that were
\* not produced by encoding a T.
Corrupt ==
    \E s \in Slots, bytes \in CorruptBytes :
        /\ store' = unhashed_put_raw(store, storage_value_final_key(s), bytes)
        /\ pre' = store
        /\ op' = "corrupt"
        /\ slot' = s
        /\ arg' = Some(bytes)
        /\ ret' = <<"unit">>
        /\ acc' = <<>>
        /\ UNCHANGED <<adapter, pend>>

Next ==
    \/ Exists
    \/ Get
    \/ Put
    \/ PutRef
    \/ Kill
    \/ Mutate
    \/ Take
    \/ AppendOp
    \/ AppendOrPut
    \/ DecodeLen
    \/ Corrupt

Spec == Init /\ [][Next]_vars

\* ------------------------------------------------- two concurrent callers
\* The layer takes no lock: when the host lets two callers run on one store,
\* each raw-store call is one step, and the read and the write of a mutate
\* are two steps between which the other caller's put or kill may land.

\* The read of mutate: `let mut val = G::get()`.
MutateRead ==
    \E s \in Slots, f \in Closures :
        /\ pend = None
        /\ f = "push" => RawLen(s) <= MaxLen
        /\ LET g == get(store, adapter, s) IN
           /\ store' = g.st
           /\ pre' = store
           /\ op' = "mutate_read"
           /\ slot' = s
           /\ arg' = Some(f)
           /\ ret' = g.ret
           /\ acc' = g.acc
           /\ pend' = IF g.ret = <<"panic">> THEN None
                      ELSE Some([slot |-> s, f |-> f, q |-> g.ret[2],
                                 seen |-> store[storage_value_final_key(s)]])
           /\ UNCHANGED adapter

\* The rest of mutate: f, the conversion, and the put or kill.
MutateWrite ==
    /\ pend # None
    /\ LET p == pend[1]
           w == mutate_write_back(store, adapter, p.slot, p.f, p.q)
       IN  /\ store' = w.st
           /\ pre' = store
           /\ op' = "mutate_write"
           /\ slot' = p.slot
           /\ arg' = pend
           /\ ret' = w.ret
           /\ acc' = w.acc
           /\ pend' = None
           /\ UNCHANGED adapter

NextRace ==
    \/ MutateRead
    \/ MutateWrite
    \/ Put
    \/ Kill

SpecRace == Init /\ [][NextRace]_vars

\* ----------------------------------------------------- claim vocabulary
\* The raw entry of the last operation's slot, before and after it.
EntryBefore == pre[storage_value_final_key(slot)]
EntryAfter == store[storage_value_final_key(slot)]

\* e is a present entry holding exactly the encoding of a collection.
ValidEntry(e) ==
    /\ e # None
    /\ Decode(e[1]).ok
    /\ Encode(Decode(e[1]).val) = e[1]

\* The number of items a Query reports (None reports none).
QueryLen(q) ==
    IF q.kind = "val" THEN Len(q.val)
    ELSE IF q.val = None THEN 0 ELSE Len(q.val[1])

\* The absent case passed through both adapter directions.
RoundTripDefault == from_query_to_optional_value(adapter, from_optional_value_to_query(adapter, None))

\* ----------------------------------------------------------------- claims
\* C1: after put(v) on a slot, with no other write in between, get() on that
\* slot returns from_optional_value_to_query(Some(v)) and exists() is true.
C1_PutThenGet ==
    op = "put" =>
        /\ get(store, adapter, slot).ret = <<"ok", from_optional_value_to_query(adapter, arg)>>
        /\ exists(store, adapter, slot).ret = <<"ok", TRUE>>

C1_Witness ==
    /\ op = "put"
    /\ arg = Some(<<5, 7>>)
    /\ EntryBefore # EntryAfter
    /\ get(store, adapter, slot).ret[2].val \in {<<5, 7>>, Some(<<5, 7>>)}

\* C2: after kill() on a slot, get() returns from_optional_value_to_query(None)
\* and exists() is false; kill() on an absent slot leaves the store as it was,
\* and a second kill() leaves the store of the first.
C2_KillThenGet ==
    op = "kill" =>
        /\ get(store, adapter, slot).ret = <<"ok", from_optional_value_to_query(adapter, None)>>
        /\ exists(store, adapter, slot).ret = <<"ok", FALSE>>
        /\ EntryBefore = None => store = pre
        /\ kill(store, adapter, slot).st = store

C2_Witness ==
    /\ op = "kill"
    /\ EntryBefore = None
    /\ \E s \in Slots : store[storage_value_final_key(s)] # None

\* C3: from a slot that is absent or holds a valid value, take() returns what
\* get() returns in that state and leaves the store that get() followed by
\* kill() leaves: the slot is absent.
C3_TakeIsGetThenKill ==
    (op = "take" /\ (EntryBefore = None \/ ValidEntry(EntryBefore))) =>
        LET g == get(pre, adapter, slot)
            k == kill(g.st, adapter, slot)
        IN  /\ ret = g.ret
            /\ store = k.st
            /\ EntryAfter = None

C3_Witness ==
    /\ op = "take"
    /\ EntryBefore = Some(<<8, 5, 7>>)
    /\ ret[1] = "ok"
    /\ EntryAfter = None

C5_AppendOnAbsent ==
    (op = "append" /\ EntryBefore = None /\ ret[1] = "ok") =>
        LET base == IF RoundTripDefault = None THEN <<>> ELSE RoundTripDefault[1]
            ref  == put(pre, adapter, slot, base \o arg[1])
        IN  get(store, adapter, slot).ret = get(ref.st, adapter, slot).ret

C5_Witness ==
    /\ op = "append"
    /\ EntryBefore = None
    /\ adapter = "ValueQueryDefault"
    /\ arg = Some(<<7>>)
    /\ get(store, adapter, slot).ret = <<"ok", [kind |-> "val", val |-> <<5, 7>>]>>

\* C6: when the codec's append rejects the splice, append(items) returns an
\* error and writes nothing: the store is exactly what it was.
C6_AppendRejectedNoWrite ==
    op = "append" =>
        /\ ~EncodeAppend(append_encoded_value(pre, adapter, slot), arg[1]).ok
               => ret = <<"err", "Could not append given item">>
        /\ ret[1] = "err" => store = pre

C6_Witness ==
    /\ op = "append"
    /\ EntryBefore = Some(<<255>>)
    /\ arg = Some(<<5, 7>>)
    /\ ret[1] = "err"

\* C7: when the slot holds raw bytes the codec cannot splice, append_or_put(items)
\* returns without error, and afterwards the slot is present and get() returns
\* the collection built from items alone.
C7_AppendOrPutRecovers ==
    (/\ op = "append_or_put"
     /\ EntryBefore # None
     /\ ~EncodeAppend(EntryBefore[1], arg[1]).ok) =>
        /\ ret = <<"unit">>
        /\ EntryAfter # None
        /\ get(store, adapter, slot).ret = <<"ok", from_optional_value_to_query(adapter, arg)>>

C7_Witness ==
    /\ op = "append_or_put"
    /\ EntryBefore = Some(<<255>>)
    /\ arg = Some(<<5, 7>>)
    /\ EntryAfter = Some(<<8, 5, 7>>)

\* C8: a successful append(items) on a present, validly encoded collection
\* makes get() return the previous collection followed by items, in order,
\* and leaves a validly encoded collection; on an absent slot whose
\* convention reads absent as the empty collection, get() returns items.
C8_AppendKeepsOrder ==
    op = "append" =>
        /\ ValidEntry(EntryBefore) =>
              /\ ret[1] = "ok"
              /\ ValidEntry(EntryAfter)
              /\ get(store, adapter, slot).ret =
                    <<"ok", from_optional_value_to_query(adapter,
                                Some(Decode(EntryBefore[1]).val \o arg[1]))>>
        /\ (EntryBefore = None /\ adapter = "ValueQuery") =>
              get(store, adapter, slot).ret = <<"ok", [kind |-> "val", val |-> arg[1]]>>

C8_Witness ==
    /\ op = "append"
    /\ adapter = "ValueQuery"
    /\ EntryBefore = Some(<<4, 5>>)
    /\ arg = Some(<<7>>)
    /\ get(store, adapter, slot).ret = <<"ok", [kind |-> "val", val |-> <<5, 7>>]>>

C10_DecodeLenOnValid ==
    (op = "decode_len" /\ ValidEntry(EntryBefore)) =>
        /\ ret = <<"ok", Len(Decode(EntryBefore[1]).val)>>
        /\ ret = <<"ok", QueryLen(get(pre, adapter, slot).ret[2])>>

C10_Witness ==
    /\ op = "decode_len"
    /\ EntryBefore = Some(<<8, 5, 7>>)
    /\ ret = <<"ok", 2>>

\* C11: when the slot holds present bytes whose length the codec cannot
\* decode, decode_len() returns an error, never Ok of any length, and leaves
\* the store as it was.
C11_DecodeLenFault ==
    (/\ op = "decode_len"
     /\ EntryBefore # None
     /\ ~DecodeLength(EntryBefore[1]).ok) =>
        /\ ret[1] = "err"
        /\ store = pre

C11_Witness ==
    /\ op = "decode_len"
    /\ EntryBefore = Some(<<255>>)
    /\ ret[1] = "err"
    /\ EntryAfter = Some(<<255>>)

\* The calls of the raw store that read, and those that write.
ReadCalls == {"exists", "get", "get_raw"}
WriteCalls == {"put", "put_raw", "kill"}

\* How many of the calls in `calls` belong to `kinds`.
CountCalls(calls, kinds) == Cardinality({i \in 1..Len(calls) : calls[i] \in kinds})

\* The operations of the accessor.
AccessorOps ==
    {"exists", "get", "put", "put_ref", "kill", "mutate", "take",
     "append", "append_or_put", "decode_len"}

\* C12: within one call of any accessor operation the raw store is read at
\* most once and written at most once; in mutate and take the read comes
\* first and nothing but the write follows it.
C12_OneReadOneWrite ==
    op \in AccessorOps =>
        /\ CountCalls(acc, ReadCalls) <= 1
        /\ CountCalls(acc, WriteCalls) <= 1
        /\ CountCalls(acc, ReadCalls \cup WriteCalls) = Len(acc)
        /\ op \in {"mutate", "take"} =>
              /\ Len(acc) >= 1
              /\ acc[1] \in ReadCalls
              /\ \A i \in 2..Len(acc) : acc[i] \in WriteCalls

C12_Witness ==
    /\ op = "append_or_put"
    /\ EntryBefore = Some(<<255>>)
    /\ acc = <<"get_raw", "put">>

\* C13: exists(), get() and decode_len() never modify the store: every raw
\* entry, at the slot's key and at every other key, is what it was; and
\* exists() is true exactly when the raw store holds an entry at the key.
C13_ReadsLeaveStore ==
    op \in {"exists", "get", "decode_len"} =>
        /\ \A k \in Keys : store[k] = pre[k]
        /\ CountCalls(acc, WriteCalls) = 0
        /\ op = "exists" => ret = <<"ok", EntryBefore # None>>

C13_Witness ==
    /\ op = "exists"
    /\ EntryBefore = Some(<<255>>)
    /\ ret = <<"ok", TRUE>>
    /\ EntryAfter = Some(<<255>>)

\* C14: when the slot holds present bytes that do not decode as T, get(),
\* mutate(f) and take() hand the decode fault to the caller and do not
\* recover: no put or kill is issued and the corrupt entry stays in the store.
C14_DecodeFaultPropagates ==
    (/\ op \in {"get", "mutate", "take"}
     /\ EntryBefore # None
     /\ ~Decode(EntryBefore[1]).ok) =>
        /\ ret = <<"panic">>
        /\ CountCalls(acc, WriteCalls) = 0
        /\ store = pre
        /\ EntryAfter = EntryBefore

C14_Witness ==
    /\ op = "take"
    /\ EntryBefore = Some(<<4>>)
    /\ ret = <<"panic">>
    /\ EntryAfter = Some(<<4>>)

\* What a write operation carries to the slot: the entry it leaves whatever
\* was there.
CarriedByMutate(p) ==
    LET o == from_query_to_optional_value(adapter, ApplyF(adapter, p.f, p.q).q)
    IN  IF o = None THEN None ELSE Some(Encode(o[1]))

\* C15: with two callers on one key, the entry after any write is the one that
\* write carries (last write wins): a mutate writes the result of f on the
\* Query it read, whatever another caller's put or kill left in between.
C15_LastWriteWins ==
    /\ op = "mutate_write" => EntryAfter = CarriedByMutate(arg[1])
    /\ op = "put" => EntryAfter = Some(Encode(arg[1]))
    /\ op = "kill" => EntryAfter = None

\* A lost update: the mutate read an absent slot, another caller put [5, 7],
\* and the mutate's write of [7] replaced it.
C15_Witness ==
    /\ op = "mutate_write"
    /\ arg[1].f = "push"
    /\ arg[1].seen = None
    /\ EntryBefore = Some(<<8, 5, 7>>)
    /\ EntryAfter = Some(<<4, 7>>)

\* What mutate(f) on the store `pre` converts the Query f left to.
MutateWritesBack ==
    LET g == get(pre, adapter, slot)
    IN  from_query_to_optional_value(adapter, ApplyF(adapter, arg[1], g.ret[2]).q)

\* C16 (as stated): every call of mutate(f) issues exactly one write after
\* its one read: a put when the mutated Query converts to Some, a kill when
\* it converts to None.
C16_AsStated ==
    op = "mutate" =>
        /\ Len(acc) = 2
        /\ acc[1] = "get"
        /\ MutateWritesBack # None => acc[2] = "put"
        /\ MutateWritesBack = None => acc[2] = "kill"

\* C16 (amended): every call of mutate(f) whose read does not fault issues
\* exactly one write after its one read: a put when the mutated Query
\* converts to Some, a kill when it converts to None, never both, also when
\* f leaves the Query unchanged and when the slot was absent; a call whose
\* read faults issues the read alone.
C16_MutateOneWrite ==
    op = "mutate" =>
        /\ ret # <<"panic">> =>
              /\ Len(acc) = 2
              /\ acc[1] = "get"
              /\ MutateWritesBack # None => acc[2] = "put"
              /\ MutateWritesBack = None => acc[2] = "kill"
        /\ ret = <<"panic">> => acc = <<"get">>

C16_Witness ==
    /\ op = "mutate"
    /\ arg = Some("keep")
    /\ adapter = "OptionQuery"
    /\ EntryBefore = None
    /\ acc = <<"get", "kill">>

\* C17: take() issues a kill only when its read found a value present; on an
\* absent slot it writes nothing and returns from_optional_value_to_query(None).
C17_TakeKillsOnlyPresent ==
    op = "take" =>
        /\ CountCalls(acc, {"kill"}) > 0 => EntryBefore # None
        /\ CountCalls(acc, {"put", "put_raw"}) = 0
        /\ EntryBefore = None =>
              /\ CountCalls(acc, WriteCalls) = 0
              /\ store = pre
              /\ ret = <<"ok", from_optional_value_to_query(adapter, None)>>

C17_Witness ==
    /\ op = "take"
    /\ EntryBefore = None
    /\ adapter = "ValueQueryDefault"
    /\ acc = <<"get">>
    /\ ret = <<"ok", [kind |-> "val", val |-> <<5>>]>>

\* The store before the last operation with every other slot's entry removed.
OwnEntryOnly ==
    [k \in Keys |-> IF k = storage_value_final_key(slot) THEN pre[k] ELSE None]

\* C18: every operation of a slot works at the key Twox128(unhashed_key),
\* distinct slots have distinct keys, and an operation reads and writes only
\* the raw entry at its slot's key: what it returns does not depend on the
\* other entries, and the entries of every other slot are what they were.
C18_OnlyOwnKey ==
    /\ \A s \in Slots :
          /\ storage_value_final_key(s) = Twox128(unhashed_key(s))
          /\ hashed_key(s) = Twox128(unhashed_key(s))
    /\ \A s1, s2 \in Slots :
          s1 # s2 => storage_value_final_key(s1) # storage_value_final_key(s2)
    /\ op \in AccessorOps =>
          \A s2 \in Slots \ {slot} :
              store[storage_value_final_key(s2)] = pre[storage_value_final_key(s2)]
    /\ op = "exists" => ret = exists(OwnEntryOnly, adapter, slot).ret
    /\ op = "get" => ret = get(OwnEntryOnly, adapter, slot).ret
    /\ op = "take" => ret = take(OwnEntryOnly, adapter, slot).ret
    /\ op = "decode_len" => ret = decode_len(OwnEntryOnly, adapter, slot).ret
    /\ op = "mutate" => ret = mutate(OwnEntryOnly, adapter, slot, arg[1]).ret
    /\ op = "append" => ret = append(OwnEntryOnly, adapter, slot, arg[1]).ret

C18_Witness ==
    /\ op = "put"
    /\ slot = "A"
    /\ EntryBefore = Some(<<255>>)
    /\ EntryAfter = Some(<<0>>)
    /\ pre[storage_value_final_key("B")] = Some(<<8, 5, 7>>)
    /\ store[storage_value_final_key("B")] = Some(<<8, 5, 7>>)

\* C19: on an absent slot, mutate with a closure that leaves the Query alone
\* leaves the slot absent exactly when None passed through both adapter
\* directions is None; when it is Some(d) the call writes d, and exists()
\* turns true although the caller changed nothing.
C19_MutateKeepOnAbsent ==
    (op = "mutate" /\ arg = Some("keep") /\ EntryBefore = None) =>
        /\ (EntryAfter = None) <=> (RoundTripDefault = None)
        /\ RoundTripDefault # None =>
              /\ acc = <<"get", "put">>
              /\ unhashed_get(store, storage_value_final_key(slot))
                    = [panic |-> FALSE, val |-> RoundTripDefault]
              /\ exists(pre, adapter, slot).ret = <<"ok", FALSE>>
              /\ exists(store, adapter, slot).ret = <<"ok", TRUE>>

C19_Witness ==
    /\ op = "mutate"
    /\ arg = Some("keep")
    /\ adapter = "ValueQueryDefault"
    /\ EntryBefore = None
    /\ EntryAfter = Some(<<4, 5>>)

\* C20: the fallback put of append_or_put fires only when append fails:
\* whenever append(items) succeeds in the state (slot absent or holding a
\* validly encoded collection), append_or_put(items) leaves the store that
\* append(items) leaves, and no readable prior item is discarded.
C20_FallbackOnlyOnFailure ==
    op = "append_or_put" =>
        LET r == append(pre, adapter, slot, arg[1]) IN
        /\ (CountCalls(acc, {"put"}) > 0) <=> (r.ret[1] = "err")
        /\ (EntryBefore = None \/ ValidEntry(EntryBefore)) => r.ret[1] = "ok"
        /\ r.ret[1] = "ok" => store = r.st
        /\ ValidEntry(EntryBefore) =>
              get(store, adapter, slot).ret =
                  <<"ok", from_optional_value_to_query(adapter,
                              Some(Decode(EntryBefore[1]).val \o arg[1]))>>

C20_Witness ==
    /\ op = "append_or_put"
    /\ EntryBefore = Some(<<4, 5>>)
    /\ arg = Some(<<7>>)
    /\ EntryAfter = Some(<<8, 5, 7>>)
    /\ acc = <<"get_raw", "put_raw">>
====
